---- MODULE Spec2Model ----
(* Model of app/api_client.py (AsyncAPIClient) and app/wallets_insights.py   *)
(* (get_wallet_activity).  One action per public operation of the client.    *)
(* Python's None is the empty tuple and an Optional value v is <<v>>; a dict  *)
(* is a function from its keys; the client handle is a transport id, 0 for   *)
(* None.                                                                     *)
EXTENDS Integers, Sequences, FiniteSets, TLC

VARIABLES client, transports, lastOp, call, sent, resp, outcome, log, walletResult

vars == <<client, transports, lastOp, call, sent, resp, outcome, log, walletResult>>

\* ---------------------------------------------------------------- bounds
MaxTransports == 2
MaxCloseCalls == 2

\* ------------------------------------------------------------- constants
NoClient == 0
None == << >>
EmptyMap == << >>
default_timeout == 30
max_attempts == 5
base_url == "https://api.example.com"
api_key == "k-123"
Endpoint == "/activity"
Mask == "****"
sensitive_keys == {"password", "token", "api_key"}

\* str.lower() on the parameter names the model draws from
Lower(key) ==
    CASE key = "Token" -> "token"
      [] key = "PASSWORD" -> "password"
      [] OTHER -> key

\* Python truthiness of an Optional number / Optional dict
TruthyNum(opt) == opt # None /\ opt[1] # 0
TruthyDict(opt) == opt # None /\ DOMAIN opt[1] # {}

\* dict.update: the right operand wins on a shared key
Merge(a, b) ==
    [k \in (DOMAIN a) \cup (DOMAIN b) |-> IF k \in DOMAIN b THEN b[k] ELSE a[k]]

\* ------------------------------------------------------------- lifecycle
default_headers ==
    LET basic == [k \in {"Content-Type", "Accept"} |-> "application/json"]
    IN  IF api_key # "" THEN Merge(basic, [Authorization |-> "Bearer k-123"]) ELSE basic

\* the transport _create_client builds: open, with the default retry policy
NewTransport ==
    [state |-> "open", closeCalls |-> 0, headers |-> default_headers,
     timeout |-> default_timeout, max_attempts |-> max_attempts]

_create_client == Append(transports, NewTransport)

aclose(t) ==
    [transports EXCEPT ![t].state = "closed", ![t].closeCalls = @ + 1]

NoCall == [dispatched |-> FALSE, transport |-> 0, method |-> "", params |-> None,
           json |-> None, timeout |-> 0, headers |-> EmptyMap]
NoResp == [kind |-> "none", status |-> 0, ctype |-> << >>, text |-> ""]
NoValue == [type |-> "", repr |-> ""]
NoOutcome == [kind |-> "none", status |-> 0, text |-> "", value |-> NoValue]
NoArgs == [method |-> "", params |-> None, json |-> None, timeout |-> None,
           headers |-> None]
NoWallet == [kind |-> "none", value |-> NoValue]

Init ==
    /\ client = NoClient
    /\ transports = << >>
    /\ lastOp = "__init__"
    /\ call = NoArgs
    /\ sent = NoCall
    /\ resp = NoResp
    /\ outcome = NoOutcome
    /\ log = << >>
    /\ walletResult = NoWallet

Line(level, event, params, query, text) ==
    [level |-> level, event |-> event, url |-> <<base_url, Endpoint>>,
     params |-> params, query |-> query, text |-> text]

InitLine == Line("info", "initialized", EmptyMap, EmptyMap, base_url)
ClosedLine == Line("info", "closed", EmptyMap, EmptyMap, "")

\* a lifecycle call dispatches nothing and returns nothing
RequestFrame ==
    /\ call' = NoArgs
    /\ sent' = NoCall
    /\ resp' = NoResp
    /\ outcome' = NoOutcome
    /\ walletResult' = NoWallet

\* async with client: (entry) -- always builds a transport and overwrites the handle
aenter ==
    /\ Len(transports) < MaxTransports
    /\ transports' = _create_client
    /\ client' = Len(transports')
    /\ log' = <<InitLine>>
    /\ lastOp' = "__aenter__"
    /\ RequestFrame

\* async with client: (exit) -- closes the transport, keeps the handle
aexit ==
    /\ IF client # NoClient
       THEN /\ transports[client].closeCalls < MaxCloseCalls
            /\ transports' = aclose(client)
            /\ log' = <<ClosedLine>>
       ELSE /\ transports' = transports
            /\ log' = << >>
    /\ client' = client
    /\ lastOp' = "__aexit__"
    /\ RequestFrame

\* await client.init()
init ==
    /\ IF client = NoClient
       THEN /\ Len(transports) < MaxTransports
            /\ transports' = _create_client
            /\ client' = Len(transports')
            /\ log' = <<InitLine>>
       ELSE /\ UNCHANGED <<transports, client>>
            /\ log' = << >>
    /\ lastOp' = "init"
    /\ RequestFrame

\* await client.close()
close ==
    /\ IF client # NoClient
       THEN /\ transports[client].closeCalls < MaxCloseCalls
            /\ transports' = aclose(client)
            /\ client' = NoClient
            /\ log' = <<ClosedLine>>
       ELSE /\ UNCHANGED <<transports, client>>
            /\ log' = << >>
    /\ lastOp' = "close"
    /\ RequestFrame

\* ------------------------------------------------------ request executor
\* the parameter mappings, bodies, timeouts and headers callers pass
ParamChoices ==
    { None,
      <<EmptyMap>>,
      <<[limit |-> "5"]>>,
      <<("Token" :> "abc") @@ ("limit" :> "5")>>,
      <<("api_key" :> "k1") @@ ("PASSWORD" :> "pw")>> }
DirectParamChoices == { None, <<("Token" :> "abc") @@ ("limit" :> "5")>> }
DataChoices == { <<[amount |-> "1"]>> }
TimeoutChoices == { None, <<0>>, <<5>> }
HeaderChoices == { None, <<[Accept |-> "text/plain"]>> }

\* what the transport can answer.  A Content-Type value is the sequence of
\* its parts; a missing header reads as "" (the empty sequence).
Statuses == {200, 204, 500}
CTypes == { << >>, <<"application/json", "; charset=utf-8">>, <<"text/plain">> }
Texts == { "{\"activity\": []}", "" }
Responses ==
    [kind : {"response"}, status : Statuses, ctype : CTypes, text : Texts]
RequestError == [kind |-> "RequestError", status |-> 0, ctype |-> << >>, text |-> ""]
ClosedError == [kind |-> "RuntimeError", status |-> 0, ctype |-> << >>, text |-> ""]

\* a closed transport refuses the request; an open one answers or fails
TransportAnswers(c) ==
    IF c \in DOMAIN transports /\ transports[c].state = "open"
    THEN Responses \cup {RequestError}
    ELSE {ClosedError}

\* "application/json" in content_type
Contains(content_type, part) ==
    \E i \in 1..Len(content_type) : content_type[i] = part

\* response.json(): decodes the body, raises on text that is not JSON
JsonValid(text) == text \in {"{\"activity\": []}", "[1]"}
json(text) ==
    CASE text = "{\"activity\": []}" -> [type |-> "dict", repr |-> "{'activity': []}"]
      [] text = "[1]" -> [type |-> "list", repr |-> "[1]"]
      [] OTHER -> NoValue

HandleMissing_unchecked(c) == FALSE

\* `if not self.client`
HandleMissing(c) == c = NoClient

\* as _sanitize_params, but masking the caller's mapping itself (no .copy())
_sanitize_params_inplace(params) ==
    IF ~TruthyDict(params)
    THEN [sanitized |-> EmptyMap, params |-> params]
    ELSE LET masked == [key \in DOMAIN params[1] |->
                          IF Lower(key) \in sensitive_keys THEN Mask
                          ELSE params[1][key]]
         IN  [sanitized |-> masked, params |-> <<masked>>]

\* _sanitize_params: the masked mapping that is logged, and the caller's
\* mapping as the call leaves it
_sanitize_params(params) ==
    IF ~TruthyDict(params)
    THEN [sanitized |-> EmptyMap, params |-> params]
    ELSE [sanitized |-> [key \in DOMAIN params[1] |->
                            IF Lower(key) \in sensitive_keys THEN Mask
                            ELSE params[1][key]],
          params |-> params]

Return(value) == [kind |-> "return", status |-> 0, text |-> "", value |-> value]
Raise(kind, status, text) ==
    [kind |-> kind, status |-> status, text |-> text, value |-> NoValue]

\* as Interpret, with the Content-Type test ahead of the 204 test
Interpret_jsonFirst(r) ==
    IF r.kind = "RequestError" THEN Raise("RequestError", 0, "")
    ELSE IF r.kind # "response" THEN Raise("Exception", 0, "")
    ELSE IF ~(r.status \in 200..299) THEN Raise("HTTPStatusError", r.status, r.text)
    ELSE IF Contains(r.ctype, "application/json")
         THEN IF JsonValid(r.text) THEN Return(json(r.text))
              ELSE Raise("Exception", 0, "")
    ELSE IF r.status = 204 THEN Return([type |-> "NoneType", repr |-> ""])
    ELSE Return([type |-> "str", repr |-> r.text])

\* raise_for_status and the dispatch on status and Content-Type
Interpret(r) ==
    IF r.kind = "RequestError" THEN Raise("RequestError", 0, "")
    ELSE IF r.kind # "response" THEN Raise("Exception", 0, "")
    ELSE IF ~(r.status \in 200..299) THEN Raise("HTTPStatusError", r.status, r.text)
    ELSE IF r.status = 204 THEN Return([type |-> "NoneType", repr |-> ""])
    ELSE IF Contains(r.ctype, "application/json")
         THEN IF JsonValid(r.text) THEN Return(json(r.text))
              ELSE Raise("Exception", 0, "")
    ELSE Return([type |-> "str", repr |-> r.text])

\* the query string httpx builds from params; it is part of the request URL
QueryOf(params) == IF params = None THEN EmptyMap ELSE params[1]

\* the log lines written after the transport has answered.  The text of an
\* HTTPStatusError names the request URL, query string included.
ResultLines(r, o, s) ==
    CASE o.kind = "HTTPStatusError" ->
            <<Line("error", "HTTP error", EmptyMap, QueryOf(s.params), r.text)>>
      [] o.kind = "RequestError" ->
            <<Line("error", "Request error", EmptyMap, EmptyMap, "")>>
      [] o.kind = "Exception" ->
            <<Line("error", "Unexpected error", EmptyMap, EmptyMap, "")>>
      [] o.kind = "return" /\ o.value.type = "NoneType" ->
            <<Line("info", "204 No Content", EmptyMap, EmptyMap, "")>>
      [] o.kind = "return" /\ o.value.type = "str" ->
            <<Line("warning", "Non-JSON response", EmptyMap, EmptyMap, "")>>
      [] OTHER -> << >>

ClientHeaders(c) == IF c \in DOMAIN transports THEN transports[c].headers ELSE EmptyMap

_request(op, method, params, json_data, timeout, headers) ==
    /\ lastOp' = op
    /\ call' = [method |-> method, params |-> params, json |-> json_data,
                timeout |-> timeout, headers |-> headers]
    /\ UNCHANGED <<client, transports>>
    /\ walletResult' = NoWallet
    /\ IF HandleMissing(client)
       THEN /\ sent' = NoCall
            /\ resp' = NoResp
            /\ outcome' = Raise("RuntimeError", 0, "")
            /\ log' = << >>
       ELSE LET san == _sanitize_params(params)
                request_headers ==
                    IF TruthyDict(headers) THEN Merge(ClientHeaders(client), headers[1])
                    ELSE ClientHeaders(client)
                s == [dispatched |-> TRUE, transport |-> client, method |-> method,
                      params |-> san.params, json |-> json_data,
                      timeout |-> IF TruthyNum(timeout) THEN timeout[1]
                                  ELSE default_timeout,
                      headers |-> request_headers]
            IN  \E r \in TransportAnswers(client) :
                    /\ sent' = s
                    /\ resp' = r
                    /\ outcome' = Interpret(r)
                    /\ log' = <<Line("info", "request", san.sanitized, EmptyMap, method)>>
                              \o ResultLines(r, Interpret(r), s)

get == \E params \in ParamChoices, headers \in HeaderChoices :
          _request("get", "GET", params, None, None, headers)

post == \E data \in DataChoices, headers \in HeaderChoices :
          _request("post", "POST", None, data, None, headers)

put == \E data \in DataChoices, headers \in HeaderChoices :
          _request("put", "PUT", None, data, None, headers)

delete == \E headers \in HeaderChoices :
          _request("delete", "DELETE", None, None, None, headers)

patch == \E data \in DataChoices, headers \in HeaderChoices :
          _request("patch", "PATCH", None, data, None, headers)

\* _request called with every argument, the timeout included
request == \E params \in DirectParamChoices, timeout \in TimeoutChoices :
          _request("_request", "GET", params, None, timeout, None)

\* ---------------------------------------------------- get_wallet_activity
\* the fields class Settings declares; attribute names are case-sensitive
SettingsFields == {"API_KEY", "BASE_URL", "W_ACTIVITY_ENDPOINT", "ADDRESS_1"}

\* api_client.get(...) is not awaited: the call yields a coroutine object,
\* its body (and so the request) never runs, and a coroutine is not a dict.
get_wallet_activity ==
    /\ lastOp' = "get_wallet_activity"
    /\ UNCHANGED <<client, transports>>
    /\ call' = NoArgs
    /\ sent' = NoCall
    /\ outcome' = NoOutcome
    /\ log' = << >>
    /\ \E r \in TransportAnswers(client) :
          /\ resp' = r
          /\ walletResult' =
                IF "w_activity_endpoint" \notin SettingsFields
                THEN [kind |-> "AttributeError", value |-> NoValue]
                ELSE LET response == [type |-> "coroutine", repr |-> ""]
                     IN  [kind |-> "return",
                          value |-> IF response.type = "dict" THEN response
                                    ELSE [type |-> "dict", repr |-> "{}"]]

Next ==
    \/ aenter
    \/ aexit
    \/ init
    \/ close
    \/ get
    \/ post
    \/ put
    \/ delete
    \/ patch
    \/ request
    \/ get_wallet_activity

Spec == Init /\ [][Next]_vars

\* ------------------------------------------------------------ properties
RequestOps == {"get", "post", "put", "patch", "delete", "_request"}
ReleaseOps == {"__aexit__", "close"}
OpenTransports == {t \in DOMAIN transports : transports[t].state = "open"}
IsJsonType(r) == Contains(r.ctype, "application/json")
\* the parameter names that match password, token or api_key ignoring case
SensitiveNames == {"password", "token", "api_key", "Token", "PASSWORD"}
LineValues(line) ==
    {line.params[k] : k \in DOMAIN line.params} \cup {line.query[k] : k \in DOMAIN line.query}

\* C1: a request made while the handle is None fails with the usage
\* RuntimeError and nothing is dispatched to a transport.
C1_NullHandleUsageError ==
    (lastOp \in RequestOps /\ client = NoClient) =>
        (outcome.kind = "RuntimeError" /\ ~sent.dispatched /\ resp = NoResp)

C1_Witness ==
    /\ lastOp = "delete"
    /\ client = NoClient
    /\ Len(transports) > 0
    /\ outcome.kind = "RuntimeError"
    /\ ~sent.dispatched

\* C2 as stated: non-2xx raises the status error with code and body text;
\* else 204 gives None whatever the Content-Type; else a Content-Type
\* containing application/json gives the decoded body; else the raw text.
C2_InterpretationOrder_Original ==
    (lastOp \in RequestOps /\ resp.kind = "response") =>
        IF ~(resp.status \in 200..299)
        THEN outcome.kind = "HTTPStatusError" /\ outcome.status = resp.status
             /\ outcome.text = resp.text
        ELSE IF resp.status = 204
        THEN outcome.kind = "return" /\ outcome.value.type = "NoneType"
        ELSE IF IsJsonType(resp)
        THEN outcome.kind = "return" /\ outcome.value.type \in {"dict", "list"}
        ELSE outcome.kind = "return" /\ outcome.value = [type |-> "str", repr |-> resp.text]

\* C2 amended: as C2, except that a JSON Content-Type gives the decoded body
\* only when the body text is valid JSON; otherwise the decode error is
\* raised as an unexpected error.
C2_InterpretationOrder ==
    (lastOp \in RequestOps /\ resp.kind = "response") =>
        IF ~(resp.status \in 200..299)
        THEN outcome.kind = "HTTPStatusError" /\ outcome.status = resp.status
             /\ outcome.text = resp.text
        ELSE IF resp.status = 204
        THEN outcome.kind = "return" /\ outcome.value.type = "NoneType"
        ELSE IF IsJsonType(resp)
        THEN IF resp.text = ""
             THEN outcome.kind = "Exception"
             ELSE outcome.kind = "return" /\ outcome.value.type = "dict"
                  /\ outcome.value.repr = "{'activity': []}"
        ELSE outcome.kind = "return" /\ outcome.value = [type |-> "str", repr |-> resp.text]

C2_Witness ==
    /\ lastOp \in RequestOps
    /\ resp.kind = "response"
    /\ resp.status = 204
    /\ IsJsonType(resp)
    /\ resp.text # ""
    /\ outcome.kind = "return"
    /\ outcome.value.type = "NoneType"

\* C3: Acquire reuses an existing handle on both entry paths, so at most one
\* transport created by the client is open at any time.
C3_AtMostOneOpenTransport == Cardinality(OpenTransports) <= 1

\* C4: after Release on either path the handle is None, and no request is
\* dispatched to a closed transport.
C4_ReleaseClearsHandle ==
    /\ lastOp \in ReleaseOps => client = NoClient
    /\ (lastOp \in RequestOps /\ sent.dispatched) =>
            transports[sent.transport].state = "open"

\* C6: no log line of a request holds the unmasked value of a parameter
\* named password, token or api_key (in any case).
C6_NoSecretInLog ==
    lastOp \in RequestOps =>
        \A i \in 1..Len(log) :
            \A k \in DOMAIN QueryOf(call.params) :
                k \in SensitiveNames => call.params[1][k] \notin LineValues(log[i])

\* C7: the logged mapping is the caller's with every sensitive name masked
\* and every other value kept, and the transport receives the caller's
\* mapping unchanged.
C7_SanitizeCopyOnLog ==
    (lastOp \in RequestOps /\ sent.dispatched) =>
        /\ sent.params = call.params
        /\ DOMAIN log[1].params = DOMAIN QueryOf(call.params)
        /\ \A k \in DOMAIN QueryOf(call.params) :
              log[1].params[k] = IF k \in SensitiveNames THEN "****"
                                 ELSE call.params[1][k]

C7_Witness ==
    /\ lastOp = "get"
    /\ sent.dispatched
    /\ call.params = <<("Token" :> "abc") @@ ("limit" :> "5")>>
    /\ sent.params[1]["Token"] = "abc"
    /\ log[1].params["Token"] = "****"
    /\ log[1].params["limit"] = "5"

\* C8: a Release that follows a Release, or that no Acquire preceded, changes
\* nothing: no transport is closed again and the handle stays as it was.
C8_SecondReleaseIsNoOp ==
    [][(lastOp' \in ReleaseOps /\ (lastOp \in ReleaseOps \/ transports = << >>))
          => (client' = client /\ transports' = transports)]_vars

\* C9: get_wallet_activity issues one GET and returns the decoded mapping
\* when the transport answers 200 with a JSON mapping, and returns {} when
\* the client raises a status or transport error.
C9_WalletActivity ==
    lastOp = "get_wallet_activity" =>
        /\ (resp.kind = "response" /\ resp.status = 200 /\ IsJsonType(resp)
                /\ resp.text = "{\"activity\": []}")
              => /\ walletResult = [kind |-> "return",
                                    value |-> [type |-> "dict", repr |-> "{'activity': []}"]]
                 /\ sent.dispatched /\ sent.method = "GET"
        /\ (resp.kind = "RequestError" \/ (resp.kind = "response" /\ resp.status = 500))
              => walletResult = [kind |-> "return",
                                 value |-> [type |-> "dict", repr |-> "{}"]]

\* C10: the transport receives the caller's timeout whenever one is given,
\* 0 included, and the client default only when none is given.
C10_ExplicitTimeoutWins ==
    (lastOp \in RequestOps /\ sent.dispatched) =>
        sent.timeout = IF call.timeout # None THEN call.timeout[1] ELSE default_timeout

====
